---- MODULE Spec2Model ----
(***************************************************************************)
(* Model of the retrieval and indexing subsystem of the UALR chatbot       *)
(* backend: the chunker and index build of pipeline.py, the Retriever of   *)
(* retriever.py and the /query handler of main.py.                         *)
(*                                                                         *)
(* Text is a sequence of character codes.  An embedding vector is          *)
(* abstracted to one integer coordinate.                                   *)
(***************************************************************************)
EXTENDS Integers, Sequences, FiniteSets

VARIABLES
    \* chunk_text generator frame (pipeline.py:19-26)
    text, chunk_size, overlap, start, yielded, cpc,
    \* pipeline.main frame (pipeline.py:53-102)
    data_dir, all_chunks, all_metadata, embeddings, batch_i, failed_sizes,
    index, bpc, berror,
    \* persisted files shared by build and serve
    index_file, metadata_file,
    \* handle_query / Retriever frame (main.py:192-222, retriever.py:14-77)
    request, qpc, r_index, r_doc_metadata, q_embedding, labels, results,
    llm_response, http, embed_calls, search_calls

chunkVars == <<text, chunk_size, overlap, start, yielded, cpc>>
buildVars == <<data_dir, all_chunks, all_metadata, embeddings, batch_i,
               failed_sizes, index, bpc, berror>>
diskVars  == <<index_file, metadata_file>>
queryVars == <<request, qpc, r_index, r_doc_metadata, q_embedding, labels,
               results, llm_response, http, embed_calls, search_calls>>
vars == <<chunkVars, buildVars, diskVars, queryVars>>

-----------------------------------------------------------------------------
(* Bounds of the model *)

MaxLen == 4          \* longest text handed to the chunk_text generator
MaxSize == 3         \* largest chunk_size tried
MaxOverlap == 4      \* largest overlap tried
MaxNeg == 1          \* most negative overlap tried is -MaxNeg
YieldCap == MaxLen + 2   \* a non-advancing generator is cut off here
MaxFiles == 65       \* most one-character .txt files in the data directory
LongLen == 501       \* length of the one long .txt file (two chunks)
MaxVec == 3          \* most vectors in a persisted index file
MaxRec == 3          \* most records in a persisted metadata file
MaxK == 4            \* largest k of a /query request
MaxServeFiles == 2   \* most .txt files of a build that runs beside a request

Min(a, b) == IF a < b THEN a ELSE b
Max(a, b) == IF a > b THEN a ELSE b

-----------------------------------------------------------------------------
(* Python values *)

\* s[a:b] of Python for a sequence s: negative bounds count from the end,
\* bounds are clipped to [0, len(s)], an empty range gives the empty sequence.
PyClip(a, n) == IF a < 0 THEN Max(a + n, 0) ELSE Min(a, n)
PySlice(s, a, b) ==
    LET lo == PyClip(a, Len(s))
        hi == PyClip(b, Len(s))
    IN  IF lo < hi THEN SubSeq(s, lo + 1, hi) ELSE <<>>

-----------------------------------------------------------------------------
(* chunk_text (pipeline.py:19-26) *)

\* end = min(start + chunk_size, n), with the end one character short
ChunkEndShort(s, size, n) == Min(s + size - 1, n)

\* end = min(start + chunk_size, n)
ChunkEnd(s, size, n) == Min(s + size, n)

\* the chunk yielded at `start`: text[start:end]
ChunkAt(t, s, size) == PySlice(t, s, ChunkEnd(s, size, Len(t)))

\* start += chunk_size - overlap, with a step dropped by one character
NextStartSkipsOne(s, size, ov) == s + size - ov + 1

\* start += chunk_size - overlap
NextStart(s, size, ov) == s + size - ov

\* while start <= n: one more round when start lands on the end
ChunkLoopCondInclusive(s, n) == s <= n

\* while start < n
ChunkLoopCond(s, n) == s < n

\* one resumption of the generator up to its next yield
ChunkYield ==
    /\ cpc = "run"
    /\ ChunkLoopCond(start, Len(text))
    /\ Len(yielded) < YieldCap
    /\ yielded' = Append(yielded, ChunkAt(text, start, chunk_size))
    /\ start' = NextStart(start, chunk_size, overlap)
    /\ UNCHANGED <<text, chunk_size, overlap, cpc>>
    /\ UNCHANGED <<buildVars, diskVars, queryVars>>

\* the loop condition fails: the generator is exhausted
ChunkStop ==
    /\ cpc = "run"
    /\ ~ChunkLoopCond(start, Len(text))
    /\ cpc' = "done"
    /\ UNCHANGED <<text, chunk_size, overlap, start, yielded>>
    /\ UNCHANGED <<buildVars, diskVars, queryVars>>

\* the whole generator, as list(chunk_text(t, size, ov)); used by main and
\* read_xlsx, which call it with overlap < chunk_size
RECURSIVE ChunksFrom(_, _, _, _)
ChunksFrom(t, s, size, ov) ==
    IF ChunkLoopCond(s, Len(t))
    THEN <<ChunkAt(t, s, size)>> \o ChunksFrom(t, NextStart(s, size, ov), size, ov)
    ELSE <<>>

chunk_text(t, size, ov) == ChunksFrom(t, 0, size, ov)

-----------------------------------------------------------------------------
(* Idle frames *)

BuildIdle ==
    /\ data_dir = <<>> /\ all_chunks = <<>> /\ all_metadata = <<>>
    /\ embeddings = <<>> /\ batch_i = 0 /\ failed_sizes = 0
    /\ index = <<>> /\ bpc = "idle" /\ berror = "none"

DiskIdle ==
    /\ index_file = [state |-> "missing", data |-> <<>>]
    /\ metadata_file = [state |-> "missing", data |-> <<>>]

QueryIdle ==
    /\ request = [query |-> <<>>, k |-> 0] /\ qpc = "idle"
    /\ r_index = <<>> /\ r_doc_metadata = <<>> /\ q_embedding = 0
    /\ labels = <<>> /\ results = <<>> /\ llm_response = [pytype |-> "None"]
    /\ http = [status |-> 0] /\ embed_calls = 0 /\ search_calls = 0

ChunkIdle ==
    /\ text = <<>> /\ chunk_size = 0 /\ overlap = 0 /\ start = 0
    /\ yielded = <<>> /\ cpc = "idle"

-----------------------------------------------------------------------------
(* Specification of the chunker alone: every call chunk_text(t, size, ov) *)

Alphabet == {1, 2}
RECURSIVE SeqsUpTo(_, _)
SeqsUpTo(S, n) ==
    IF n = 0 THEN {<<>>}
    ELSE LET shorter == SeqsUpTo(S, n - 1)
         IN  shorter \cup {Append(s, c) : s \in shorter, c \in S}

ChunkInit ==
    /\ text \in SeqsUpTo(Alphabet, MaxLen)
    /\ chunk_size \in 1..MaxSize
    /\ overlap \in (0 - MaxNeg)..MaxOverlap
    /\ start = 0
    /\ yielded = <<>>
    /\ cpc = "run"
    /\ BuildIdle /\ DiskIdle /\ QueryIdle

ChunkNext == ChunkYield \/ ChunkStop

SpecChunk == ChunkInit /\ [][ChunkNext]_vars

-----------------------------------------------------------------------------
(* Claims about chunk_text, checked under SpecChunk *)

ValidParams == 0 <= overlap /\ overlap < chunk_size
Step == chunk_size - overlap

\* the window text[k*step : k*step + size], truncated to the text
ExpectedWindow(k) ==
    SubSeq(text, k * Step + 1, Min(k * Step + chunk_size, Len(text)))

\* C3: chunk_text called with overlap >= chunk_size on a non-empty text fails
\* at once with a configuration error: it never produces a chunk.
C3_OverlapGeSizeFailsFast ==
    (overlap >= chunk_size /\ Len(text) > 0) => yielded = <<>>

\* C9: for 0 <= overlap < size the generator yields exactly the windows
\* text[start:start+size] for start = 0, step, 2*step, ... while
\* start < len(text), the last one truncated; it terminates (it is never cut
\* off at the cap) and yields nothing for the empty text.
C9_ExactWindows ==
    ValidParams =>
        /\ start = Len(yielded) * Step
        /\ \A j \in 1..Len(yielded) :
              /\ (j - 1) * Step < Len(text)
              /\ yielded[j] = ExpectedWindow(j - 1)
        /\ (cpc = "run" /\ start < Len(text)) => Len(yielded) < YieldCap
        /\ cpc = "done" =>
              /\ Len(yielded) * Step >= Len(text)
              /\ (text = <<>> => yielded = <<>>)

C9_Witness ==
    /\ cpc = "done" /\ ValidParams /\ overlap > 0
    /\ Len(yielded) >= 3
    /\ Len(yielded[Len(yielded)]) < chunk_size

\* character index p of the text lies inside the window of some yielded chunk
Covered(p) ==
    \E j \in 1..Len(yielded) : \E o \in 1..Len(yielded[j]) :
        (j - 1) * Step + o = p /\ yielded[j][o] = text[p]

\* C10 as stated: for every (size, overlap) with overlap < size the chunks
\* cover the text with no gaps.
C10_CoverageAnyOverlapBelowSize ==
    (cpc = "done" /\ overlap < chunk_size) =>
        \A p \in 1..Len(text) : Covered(p)

\* C10 as amended: for every (size, overlap) with 0 <= overlap < size every
\* character index of the text lies inside at least one chunk's window.
C10_Coverage ==
    (cpc = "done" /\ ValidParams) => \A p \in 1..Len(text) : Covered(p)

C10_Witness ==
    /\ cpc = "done" /\ ValidParams
    /\ Len(text) = MaxLen /\ Len(yielded) >= 2 /\ overlap = 0

\* ceil(a / b) for b > 0
CeilDiv(a, b) == IF a <= 0 THEN 0 - ((0 - a) \div b) ELSE (a + b - 1) \div b

\* C11 as stated: for a non-empty text and 0 <= overlap < size the number of
\* chunks is ceil((len - overlap) / (size - overlap)), and a text no longer
\* than size yields exactly one chunk, the whole text.
C11_CountByLenMinusOverlap ==
    (cpc = "done" /\ ValidParams /\ Len(text) > 0) =>
        /\ Len(yielded) = CeilDiv(Len(text) - overlap, Step)
        /\ Len(text) <= chunk_size => yielded = <<text>>

\* C11 as amended: for a non-empty text and 0 <= overlap < size the number
\* of chunks is ceil(len / (size - overlap)), and a text no longer than
\* size - overlap yields exactly one chunk, the whole text.
C11_CountByLen ==
    (cpc = "done" /\ ValidParams /\ Len(text) > 0) =>
        /\ Len(yielded) = CeilDiv(Len(text), Step)
        /\ Len(text) <= Step => yielded = <<text>>

\* a text longer than size, chunked with an overlap, where the two counts
\* differ
C11_Witness ==
    /\ cpc = "done" /\ ValidParams /\ overlap > 0
    /\ Len(text) > chunk_size
    /\ Len(yielded) = CeilDiv(Len(text), Step)
    /\ Len(yielded) # CeilDiv(Len(text) - overlap, Step)

-----------------------------------------------------------------------------
(* pipeline.py: configuration *)

CHUNK_SIZE == 500
CHUNK_OVERLAP == 100
BATCH_SIZE == 32
DEFAULT_CHUNK_SIZE == 500
DEFAULT_OVERLAP == 100

Whitespace == {9, 10, 11, 12, 13, 32}
SEP == <<32, 124, 32>>      \* " | "

\* str.strip() leaves something
StripNonEmpty(line) == \E p \in 1..Len(line) : line[p] \notin Whitespace

-----------------------------------------------------------------------------
(* The embedding provider: one vector per text, a function of the text.     *)
(* The vector is abstracted to one coordinate, the first character code.    *)

Embed(t) == IF t = <<>> THEN 0 ELSE t[1]

\* embed_batch on success: one vector per input, in input order
embed_batch(texts) == [p \in 1..Len(texts) |-> Embed(texts[p])]

-----------------------------------------------------------------------------
(* Document readers (pipeline.py:28-40) *)

\* " | ".join(str(cell) for cell in row if not pd.isna(cell))
RECURSIVE JoinCells(_)
JoinCells(cells) ==
    IF cells = <<>> THEN <<>>
    ELSE IF Len(cells) = 1 THEN cells[1]
    ELSE cells[1] \o SEP \o JoinCells(Tail(cells))

CellStrs(row) == [p \in 1..Len(row) |-> row[p].str]
RowLineOf(row) ==
    JoinCells(CellStrs(SelectSeq(row, LAMBDA cell : ~cell.nan)))

\* read_xlsx: every non-blank row line, chunked with the default parameters
RECURSIVE read_xlsx(_)
read_xlsx(rows) ==
    IF rows = <<>> THEN <<>>
    ELSE LET line == RowLineOf(rows[1])
         IN  (IF StripNonEmpty(line)
              THEN chunk_text(line, DEFAULT_CHUNK_SIZE, DEFAULT_OVERLAP)
              ELSE <<>>) \o read_xlsx(Tail(rows))

\* the {"source_file": fname, "content": chunk} records of one file
MetadataOf(fname, chunks) ==
    [p \in 1..Len(chunks) |-> [source_file |-> fname, content |-> chunks[p]]]

\* the chunks main() takes from one file; other extensions give none
FileChunks(f) ==
    IF f.ext = "txt" THEN chunk_text(f.text, CHUNK_SIZE, CHUNK_OVERLAP)
    ELSE IF f.ext = "xlsx" THEN read_xlsx(f.rows)
    ELSE <<>>

\* a read is attempted only for .txt and .xlsx files
ReadRaises(f) == f.ext \in {"txt", "xlsx"} /\ ~f.readable

\* the ingestion loop of main() (pipeline.py:57-78) over the listing `files`:
\* the lists built, or raised = TRUE when a read raised (nothing catches it)
RECURSIVE IngestFrom(_, _, _)
IngestFrom(files, chunks, metadata) ==
    IF files = <<>> THEN [raised |-> FALSE, chunks |-> chunks, metadata |-> metadata]
    ELSE LET f == files[1] IN
         IF ReadRaises(f)
         THEN [raised |-> TRUE, chunks |-> chunks, metadata |-> metadata]
         ELSE IngestFrom(Tail(files),
                         chunks \o FileChunks(f),
                         metadata \o MetadataOf(f.name, FileChunks(f)))

-----------------------------------------------------------------------------
(* pipeline.main (pipeline.py:53-102) *)

Ingest ==
    /\ bpc = "start"
    /\ LET r == IngestFrom(data_dir, <<>>, <<>>) IN
         /\ all_chunks' = r.chunks
         /\ all_metadata' = r.metadata
         /\ bpc' = IF r.raised THEN "failed" ELSE "embed"
         /\ berror' = IF r.raised THEN "read" ELSE berror
    /\ UNCHANGED <<data_dir, embeddings, batch_i, failed_sizes, index>>
    /\ UNCHANGED <<chunkVars, diskVars, queryVars>>

\* batch = all_chunks[i:i+BATCH_SIZE]
Batch(chunks, i) == PySlice(chunks, i, i + BATCH_SIZE)

\* for i in range(0, len(all_chunks), BATCH_SIZE): the loop has a next batch
InBatchLoop == bpc = "embed" /\ batch_i < Len(all_chunks)

\* embed_batch returned: embeddings.extend(batch_emb)
EmbedBatchOk ==
    /\ InBatchLoop
    /\ embeddings' = embeddings \o embed_batch(Batch(all_chunks, batch_i))
    /\ batch_i' = batch_i + BATCH_SIZE
    /\ UNCHANGED <<data_dir, all_chunks, all_metadata, failed_sizes, index,
                   bpc, berror>>
    /\ UNCHANGED <<chunkVars, diskVars, queryVars>>

\* embed_batch raised and the exception leaves main()
EmbedBatchRaisedAborts ==
    /\ InBatchLoop
    /\ failed_sizes' = failed_sizes + Len(Batch(all_chunks, batch_i))
    /\ bpc' = "failed"
    /\ berror' = "embed"
    /\ UNCHANGED <<data_dir, all_chunks, all_metadata, embeddings, batch_i,
                   index>>
    /\ UNCHANGED <<chunkVars, diskVars, queryVars>>

\* embed_batch raised: except Exception: print; continue
EmbedBatchRaised ==
    /\ InBatchLoop
    /\ failed_sizes' = failed_sizes + Len(Batch(all_chunks, batch_i))
    /\ batch_i' = batch_i + BATCH_SIZE
    /\ UNCHANGED <<data_dir, all_chunks, all_metadata, embeddings, index,
                   bpc, berror>>
    /\ UNCHANGED <<chunkVars, diskVars, queryVars>>

\* np.stack(embeddings) succeeds on an empty list too, and the empty index
\* goes on to be written
BuildIndexAllowsEmpty ==
    /\ bpc = "embed" /\ batch_i >= Len(all_chunks)
    /\ bpc' = "write_index" /\ berror' = berror /\ index' = embeddings
    /\ UNCHANGED <<data_dir, all_chunks, all_metadata, embeddings, batch_i,
                   failed_sizes>>
    /\ UNCHANGED <<chunkVars, diskVars, queryVars>>

\* np.stack(embeddings) raises ValueError on an empty list; otherwise
\* index.add(emb_arr) stores the vectors in list order
BuildIndex ==
    /\ bpc = "embed" /\ batch_i >= Len(all_chunks)
    /\ IF embeddings = <<>>
       THEN /\ bpc' = "failed" /\ berror' = "stack" /\ index' = index
       ELSE /\ bpc' = "write_index" /\ berror' = berror /\ index' = embeddings
    /\ UNCHANGED <<data_dir, all_chunks, all_metadata, embeddings, batch_i,
                   failed_sizes>>
    /\ UNCHANGED <<chunkVars, diskVars, queryVars>>

\* faiss.write_index(index, INDEX_PATH) opens INDEX_PATH itself for writing:
\* the file at the path is truncated and stays incomplete until the write ends
OpenIndexFile ==
    /\ bpc = "write_index"
    /\ index_file' = [state |-> "partial", data |-> <<>>]
    /\ bpc' = "dump_index"
    /\ UNCHANGED <<data_dir, all_chunks, all_metadata, embeddings, batch_i,
                   failed_sizes, index, berror, metadata_file>>
    /\ UNCHANGED <<chunkVars, queryVars>>

\* faiss.write_index(index, INDEX_PATH) completes
WriteIndex ==
    /\ bpc = "dump_index"
    /\ index_file' = [state |-> "ok", data |-> index]
    /\ bpc' = "write_metadata"
    /\ UNCHANGED <<data_dir, all_chunks, all_metadata, embeddings, batch_i,
                   failed_sizes, index, berror, metadata_file>>
    /\ UNCHANGED <<chunkVars, queryVars>>

\* with open(METADATA_PATH, "wb") as f: the file at the path is truncated
OpenMetadataFile ==
    /\ bpc = "write_metadata"
    /\ metadata_file' = [state |-> "partial", data |-> <<>>]
    /\ bpc' = "dump_metadata"
    /\ UNCHANGED <<data_dir, all_chunks, all_metadata, embeddings, batch_i,
                   failed_sizes, index, berror, index_file>>
    /\ UNCHANGED <<chunkVars, queryVars>>

\* pickle.dump(all_metadata, f) and the file is closed
WriteMetadata ==
    /\ bpc = "dump_metadata"
    /\ metadata_file' = [state |-> "ok", data |-> all_metadata]
    /\ bpc' = "done"
    /\ UNCHANGED <<data_dir, all_chunks, all_metadata, embeddings, batch_i,
                   failed_sizes, index, berror, index_file>>
    /\ UNCHANGED <<chunkVars, queryVars>>

-----------------------------------------------------------------------------
(* Specification of one build: a data directory, then main() *)

\* one-character .txt files, each with its own character
SmallFile(j) ==
    [name |-> <<j, "txt">>, ext |-> "txt", readable |-> TRUE,
     text |-> <<100 + j>>, rows |-> <<>>]

Cell(c) == [nan |-> FALSE, str |-> <<c>>]
NaN == [nan |-> TRUE, str |-> <<110, 97, 110>>]

ExtraFiles ==
    [none   |-> <<>>,
     long   |-> <<[name |-> <<0, "txt">>, ext |-> "txt", readable |-> TRUE,
                   text |-> [p \in 1..LongLen |-> 1000 + p], rows |-> <<>>]>>,
     empty  |-> <<[name |-> <<0, "txt">>, ext |-> "txt", readable |-> TRUE,
                   text |-> <<>>, rows |-> <<>>]>>,
     sheet  |-> <<[name |-> <<0, "xlsx">>, ext |-> "xlsx", readable |-> TRUE,
                   text |-> <<>>,
                   rows |-> << <<Cell(65), NaN, Cell(66)>>,
                               <<NaN, NaN>>,
                               <<Cell(32)>>,
                               <<Cell(67)>> >>]>>,
     other  |-> <<[name |-> <<0, "pdf">>, ext |-> "pdf", readable |-> FALSE,
                   text |-> <<>>, rows |-> <<>>]>>,
     broken |-> <<[name |-> <<0, "txt">>, ext |-> "txt", readable |-> FALSE,
                   text |-> <<>>, rows |-> <<>>]>>]

OldIndexFile == [state |-> "ok", data |-> <<7>>]
OldMetadataFile ==
    [state |-> "ok",
     data |-> <<[source_file |-> <<9, "txt">>, content |-> <<7>>]>>]

BuildInit ==
    /\ \E n \in 0..MaxFiles : \E x \in DOMAIN ExtraFiles :
          data_dir = ExtraFiles[x] \o [j \in 1..n |-> SmallFile(j)]
    /\ all_chunks = <<>> /\ all_metadata = <<>> /\ embeddings = <<>>
    /\ batch_i = 0 /\ failed_sizes = 0 /\ index = <<>>
    /\ bpc = "start" /\ berror = "none"
    /\ \/ DiskIdle
       \/ index_file = OldIndexFile /\ metadata_file = OldMetadataFile
    /\ ChunkIdle /\ QueryIdle

BuildNext ==
    \/ Ingest
    \/ EmbedBatchOk
    \/ EmbedBatchRaised
    \/ BuildIndex
    \/ OpenIndexFile
    \/ WriteIndex
    \/ OpenMetadataFile
    \/ WriteMetadata

SpecBuild == BuildInit /\ [][BuildNext]_vars

-----------------------------------------------------------------------------
(* Claims about the build, checked under SpecBuild *)

\* C1: after any build, also one with failed batches, the persisted index
\* and metadata are positionally aligned: the vector at every position i of
\* the index is the embedding of the content of metadata record i.
C1_PersistedAligned ==
    bpc = "done" =>
        \A p \in 1..Len(index_file.data) :
            /\ p <= Len(metadata_file.data)
            /\ index_file.data[p] = Embed(metadata_file.data[p].content)

\* C2: a batch whose embedding call raises is skipped and the loop goes on to
\* the next batch: a failed batch never ends the build inside the loop, and
\* the vectors collected, put in the index and persisted number the chunks
\* minus the sizes of the failed batches.
C2_SkipAndContinue ==
    /\ bpc = "embed" =>
          Len(embeddings) = Min(batch_i, Len(all_chunks)) - failed_sizes
    /\ (bpc = "failed" /\ failed_sizes > 0) => batch_i >= Len(all_chunks)
    /\ bpc \in {"write_index", "dump_index", "write_metadata",
                "dump_metadata", "done"} =>
          Len(index) = Len(all_chunks) - failed_sizes
    /\ bpc = "done" =>
          Len(index_file.data) = Len(all_chunks) - failed_sizes

\* the first batch failed, a later one was embedded, and the build finished
C2_Witness ==
    /\ bpc = "done"
    /\ failed_sizes = BATCH_SIZE
    /\ Len(all_chunks) > BATCH_SIZE
    /\ index_file.data[1] = Embed(all_chunks[BATCH_SIZE + 1])

\* the chunks of the files of a listing whose read does not fail
RECURSIVE ReadableChunks(_)
ReadableChunks(files) ==
    IF files = <<>> THEN <<>>
    ELSE (IF ReadRaises(files[1]) THEN <<>> ELSE FileChunks(files[1]))
             \o ReadableChunks(Tail(files))

\* C13: a document whose read or parse fails is skipped alone: the build is
\* not ended by it and the chunks of all other documents are ingested; files
\* with unrecognized extensions are skipped without error.
C13_ReadFailureSkipsDocument ==
    bpc \notin {"idle", "start"} =>
        /\ berror # "read"
        /\ all_chunks = ReadableChunks(data_dir)

\* the build has run its batch loop to the end and holds no vector
NoVectors ==
    bpc = "embed" /\ batch_i >= Len(all_chunks) /\ embeddings = <<>>

\* C14: a build with no vectors (no chunks, or every batch failed) raises
\* before persisting: from the end of the loop it goes to failure, and no
\* step of a build that holds no vector changes the index file or the
\* metadata file.
C14_EmptyBuildFailsUnwritten ==
    [][/\ NoVectors => (bpc' = "failed" /\ berror' = "stack")
       /\ (bpc # "idle" /\ embeddings' = <<>>) =>
             (index_file' = index_file /\ metadata_file' = metadata_file)]_vars

\* every batch of a build with more than one batch failed, and the files of
\* the earlier build are still in place
C14_Witness ==
    /\ bpc = "failed" /\ berror = "stack"
    /\ failed_sizes > BATCH_SIZE
    /\ failed_sizes = Len(all_chunks)
    /\ index_file = OldIndexFile /\ metadata_file = OldMetadataFile

-----------------------------------------------------------------------------
(* Python objects *)

\* obj[i] of Python for a list: a negative i counts from the end
PyIndex(s, i) == IF i < 0 THEN s[Len(s) + i + 1] ELSE s[i + 1]

\* attributes the handler reads; a str has no attribute "id"
PyHasAttr(obj, name) ==
    IF obj.pytype = "str" THEN FALSE ELSE name \in DOMAIN obj

-----------------------------------------------------------------------------
(* faiss.IndexFlatL2.search as called at retriever.py:59: the k nearest     *)
(* stored vectors by squared L2 distance, nearest first, the lower position *)
(* first among equals; k labels are returned, -1 where there is no vector.  *)

L2(a, b) == (a - b) * (a - b)

Nearer(vectors, q, a, b) ==
    \/ L2(vectors[a], q) < L2(vectors[b], q)
    \/ L2(vectors[a], q) = L2(vectors[b], q) /\ a < b

Rank(vectors, q, a) ==
    Cardinality({b \in 1..Len(vectors) : Nearer(vectors, q, b, a)})

SearchLabels(vectors, q, k) ==
    [j \in 1..k |->
        IF j <= Len(vectors)
        THEN (CHOOSE a \in 1..Len(vectors) : Rank(vectors, q, a) = j - 1) - 1
        ELSE 0 - 1]

-----------------------------------------------------------------------------
(* Retriever.query, the lookup loop (retriever.py:65-77) *)

\* any index Python accepts, negative ones too
InRangePy(i, n) == 0 - n <= i /\ i < n

\* 0 <= i < len(self.doc_metadata)
InRange(i, n) == 0 <= i /\ i < n

\* every record passes
HasContentAlways(doc) == TRUE

\* "content" in doc
HasContent(doc) == "content" \in DOMAIN doc

RECURSIVE Lookup(_, _)
Lookup(ls, meta) ==
    IF ls = <<>> THEN <<>>
    ELSE LET i == ls[1] IN
         (IF InRange(i, Len(meta)) /\ HasContent(PyIndex(meta, i))
          THEN <<PyIndex(meta, i)>>
          ELSE <<>>) \o Lookup(Tail(ls), meta)

-----------------------------------------------------------------------------
(* handle_query (main.py:192-222) with Retriever.__init__ and .query inline *)

\* except Exception: raise HTTPException(status_code=500, ...)
ServerError(exc) == [status |-> 500, body |-> [detail |-> exc]]

QueryStep(from, to) ==
    /\ qpc = from
    /\ qpc' = to

QueryFails(from, exc) ==
    /\ qpc = from
    /\ qpc' = "done"
    /\ http' = ServerError(exc)

\* genai.Client(...) constructed (retriever.py:20-25)
InitClient ==
    /\ QueryStep("init_client", "load_index")
    /\ UNCHANGED <<request, r_index, r_doc_metadata, q_embedding, labels,
                   results, llm_response, http, embed_calls, search_calls>>
    /\ UNCHANGED <<chunkVars, buildVars, diskVars>>

InitClientRaises ==
    /\ QueryFails("init_client", "genai.Client")
    /\ UNCHANGED <<request, r_index, r_doc_metadata, q_embedding, labels,
                   results, llm_response, embed_calls, search_calls>>
    /\ UNCHANGED <<chunkVars, buildVars, diskVars>>

\* faiss.read_index(index_path) (retriever.py:27-33)
LoadIndex ==
    /\ index_file.state = "ok"
    /\ QueryStep("load_index", "load_metadata")
    /\ r_index' = index_file.data
    /\ UNCHANGED <<request, r_doc_metadata, q_embedding, labels, results,
                   llm_response, http, embed_calls, search_calls>>
    /\ UNCHANGED <<chunkVars, buildVars, diskVars>>

LoadIndexRaises ==
    /\ index_file.state # "ok"
    /\ QueryFails("load_index", "faiss.read_index")
    /\ UNCHANGED <<request, r_index, r_doc_metadata, q_embedding, labels,
                   results, llm_response, embed_calls, search_calls>>
    /\ UNCHANGED <<chunkVars, buildVars, diskVars>>

\* pickle.load(f) (retriever.py:35-42); no count is compared with the index
LoadMetadata ==
    /\ metadata_file.state = "ok"
    /\ QueryStep("load_metadata", "embed_query")
    /\ r_doc_metadata' = metadata_file.data
    /\ UNCHANGED <<request, r_index, q_embedding, labels, results,
                   llm_response, http, embed_calls, search_calls>>
    /\ UNCHANGED <<chunkVars, buildVars, diskVars>>

LoadMetadataRaises ==
    /\ metadata_file.state # "ok"
    /\ QueryFails("load_metadata", "pickle.load")
    /\ UNCHANGED <<request, r_index, r_doc_metadata, q_embedding, labels,
                   results, llm_response, embed_calls, search_calls>>
    /\ UNCHANGED <<chunkVars, buildVars, diskVars>>

\* self.model.models.embed_content(contents=[text]) (retriever.py:46-56):
\* the first statement of query() after the log line
EmbedQuery ==
    /\ QueryStep("embed_query", "search")
    /\ embed_calls' = embed_calls + 1
    /\ q_embedding' = Embed(request.query)
    /\ UNCHANGED <<request, r_index, r_doc_metadata, labels, results,
                   llm_response, http, search_calls>>
    /\ UNCHANGED <<chunkVars, buildVars, diskVars>>

EmbedQueryRaises ==
    /\ QueryFails("embed_query", "embed_content")
    /\ embed_calls' = embed_calls + 1
    /\ UNCHANGED <<request, r_index, r_doc_metadata, q_embedding, labels,
                   results, llm_response, search_calls>>
    /\ UNCHANGED <<chunkVars, buildVars, diskVars>>

\* D, I = self.index.search(embedding, k) (retriever.py:58-63)
Search ==
    /\ QueryStep("search", "lookup")
    /\ search_calls' = search_calls + 1
    /\ labels' = SearchLabels(r_index, q_embedding, request.k)
    /\ UNCHANGED <<request, r_index, r_doc_metadata, q_embedding, results,
                   llm_response, http, embed_calls>>
    /\ UNCHANGED <<chunkVars, buildVars, diskVars>>

\* the lookup loop and return results (retriever.py:65-77)
LookupResults ==
    /\ QueryStep("lookup", "generate")
    /\ results' = Lookup(labels, r_doc_metadata)
    /\ UNCHANGED <<request, r_index, r_doc_metadata, q_embedding, labels,
                   llm_response, http, embed_calls, search_calls>>
    /\ UNCHANGED <<chunkVars, buildVars, diskVars>>

\* call_gemini returns generated_text, a str (llm.py:81-86)
CallGemini ==
    /\ QueryStep("generate", "respond")
    /\ llm_response' = [pytype |-> "str", value |-> "generated text"]
    /\ UNCHANGED <<request, r_index, r_doc_metadata, q_embedding, labels,
                   results, http, embed_calls, search_calls>>
    /\ UNCHANGED <<chunkVars, buildVars, diskVars>>

\* call_gemini re-raises a request or parsing error (llm.py:88-106)
CallGeminiRaises ==
    /\ QueryFails("generate", "call_gemini")
    /\ UNCHANGED <<request, r_index, r_doc_metadata, q_embedding, labels,
                   results, llm_response, embed_calls, search_calls>>
    /\ UNCHANGED <<chunkVars, buildVars, diskVars>>

\* main.py:216-222: response.id is read before the body is returned; when
\* the attribute is missing the AttributeError is caught by except Exception
Respond ==
    /\ qpc = "respond"
    /\ qpc' = "done"
    /\ http' = IF PyHasAttr(llm_response, "id")
               THEN [status |-> 200,
                     body |-> [response |-> llm_response,
                               retrieved_docs |-> results,
                               run_id |-> llm_response.id]]
               ELSE ServerError("AttributeError")
    /\ UNCHANGED <<request, r_index, r_doc_metadata, q_embedding, labels,
                   results, llm_response, embed_calls, search_calls>>
    /\ UNCHANGED <<chunkVars, buildVars, diskVars>>

-----------------------------------------------------------------------------
(* Specification of one /query request against a persisted pair of files.   *)
(* The files are whatever is at INDEX_PATH and METADATA_PATH: missing,      *)
(* unreadable, or a vector list and a record list of any lengths.           *)

Coords == {1, 2}
SOURCE == <<0, "txt">>
Records ==
    {[source_file |-> SOURCE, content |-> <<c>>] : c \in Coords}
        \cup {[source_file |-> SOURCE]}
Queries == {<<>>, <<32>>, <<1>>, <<2>>}

IndexFiles ==
    {[state |-> st, data |-> <<>>] : st \in {"missing", "corrupt"}}
        \cup {[state |-> "ok", data |-> v] :
                 v \in SeqsUpTo(Coords, MaxVec) \ {<<>>}}

MetadataFiles ==
    {[state |-> st, data |-> <<>>] : st \in {"missing", "corrupt"}}
        \cup {[state |-> "ok", data |-> m] : m \in SeqsUpTo(Records, MaxRec)}

QueryInit ==
    /\ index_file \in IndexFiles
    /\ metadata_file \in MetadataFiles
    /\ request \in [query : Queries, k : 1..MaxK]
    /\ qpc = "init_client"
    /\ r_index = <<>> /\ r_doc_metadata = <<>> /\ q_embedding = 0
    /\ labels = <<>> /\ results = <<>> /\ llm_response = [pytype |-> "None"]
    /\ http = [status |-> 0] /\ embed_calls = 0 /\ search_calls = 0
    /\ ChunkIdle /\ BuildIdle

QueryNext ==
    \/ InitClient
    \/ InitClientRaises
    \/ LoadIndex
    \/ LoadIndexRaises
    \/ LoadMetadata
    \/ LoadMetadataRaises
    \/ EmbedQuery
    \/ EmbedQueryRaises
    \/ Search
    \/ LookupResults
    \/ CallGemini
    \/ CallGeminiRaises
    \/ Respond

SpecQuery == QueryInit /\ [][QueryNext]_vars

-----------------------------------------------------------------------------
(* Claims about the query path, checked under SpecQuery *)

RetrieverConstructed ==
    qpc \in {"embed_query", "search", "lookup", "generate", "respond"}
        \/ (qpc = "done" /\ embed_calls > 0)

QueryReturned ==
    qpc \in {"generate", "respond"}
        \/ (qpc = "done" /\ http.body.detail \in {"call_gemini", "AttributeError"})

\* C4: when the Retriever is constructed, retriever.query returns and the
\* language-model call returns generated text, the request is answered with
\* HTTP 200 and a body holding the response and the retrieved_docs list.
C4_SuccessAnswered ==
    (qpc = "done" /\ llm_response.pytype = "str") =>
        /\ http.status = 200
        /\ http.body.response = llm_response
        /\ http.body.retrieved_docs = results

IsBlank(t) == \A p \in 1..Len(t) : t[p] \in Whitespace

\* C5: an empty or whitespace-only query text is rejected before any
\* embedding call or index search is made.
C5_BlankQueryRejected ==
    IsBlank(request.query) => (embed_calls = 0 /\ search_calls = 0)

\* C6: a Retriever is never constructed from an index file and a metadata
\* file whose vector count and record count differ.
C6_MismatchFailsConstruction ==
    RetrieverConstructed => Len(r_index) = Len(r_doc_metadata)

\* the labels the lookup keeps, in search order
KeptLabels ==
    SelectSeq(labels,
              LAMBDA i : /\ 0 <= i
                         /\ i < Len(r_doc_metadata)
                         /\ "content" \in DOMAIN r_doc_metadata[i + 1])

\* C7: query returns exactly the metadata records at the searched positions
\* that lie in [0, len(metadata)) and have a 'content' field, in the order
\* the search returned them; the others are dropped without an error.
C7_LookupFiltersInOrder ==
    QueryReturned =>
        /\ Len(results) = Len(KeptLabels)
        /\ \A j \in 1..Len(results) :
              results[j] = r_doc_metadata[KeptLabels[j] + 1]
        /\ Len(results) <= request.k

\* a position beyond the metadata and a record without content were both
\* dropped, and something was still returned
C7_Witness ==
    /\ qpc = "generate"
    /\ \E j \in 1..Len(labels) : labels[j] >= Len(r_doc_metadata)
    /\ \E j \in 1..Len(labels) :
          /\ 0 <= labels[j] /\ labels[j] < Len(r_doc_metadata)
          /\ "content" \notin DOMAIN r_doc_metadata[labels[j] + 1]
    /\ Len(results) >= 1
    /\ Len(results) < request.k

AlignedStore ==
    /\ Len(r_index) = Len(r_doc_metadata)
    /\ \A p \in 1..Len(r_index) :
          /\ "content" \in DOMAIN r_doc_metadata[p]
          /\ r_index[p] = Embed(r_doc_metadata[p].content)

Occurrences(s, x) == Cardinality({j \in 1..Len(s) : s[j] = x})

\* C8: a search with k above the number N of stored vectors gives exactly N
\* positions, each once, and no error; query over an aligned store whose
\* records all have content then returns exactly N records, each stored
\* record once.
C8_KAboveCountReturnsAll ==
    (request.k > Len(r_index) /\ AlignedStore) =>
        /\ qpc \in {"lookup", "generate", "respond"} =>
              /\ Cardinality({j \in 1..Len(labels) : labels[j] # 0 - 1})
                    = Len(r_index)
              /\ \A p \in 1..Len(r_index) : Occurrences(labels, p - 1) = 1
        /\ QueryReturned =>
              /\ Len(results) = Len(r_index)
              /\ \A p \in 1..Len(r_doc_metadata) :
                    Occurrences(results, r_doc_metadata[p])
                        = Occurrences(r_doc_metadata, r_doc_metadata[p])

\* k above a store of two or more aligned records, the nearest not the first
C8_Witness ==
    /\ qpc = "generate"
    /\ AlignedStore
    /\ Len(r_index) >= 2
    /\ request.k > Len(r_index)
    /\ labels[1] # 0
    /\ Len(results) = Len(r_index)

-----------------------------------------------------------------------------
(* Specification of a build running while a /query request is served on the *)
(* same INDEX_PATH and METADATA_PATH: main() of pipeline.py and             *)
(* handle_query interleave step by step; nothing in either locks the files. *)

ServeInit ==
    /\ \E n \in 0..MaxServeFiles : \E x \in DOMAIN ExtraFiles :
          data_dir = ExtraFiles[x] \o [j \in 1..n |-> SmallFile(j)]
    /\ all_chunks = <<>> /\ all_metadata = <<>> /\ embeddings = <<>>
    /\ batch_i = 0 /\ failed_sizes = 0 /\ index = <<>>
    /\ bpc = "start" /\ berror = "none"
    /\ \/ DiskIdle
       \/ index_file = OldIndexFile /\ metadata_file = OldMetadataFile
    /\ request \in [query : Queries, k : 1..MaxK]
    /\ qpc = "init_client"
    /\ r_index = <<>> /\ r_doc_metadata = <<>> /\ q_embedding = 0
    /\ labels = <<>> /\ results = <<>> /\ llm_response = [pytype |-> "None"]
    /\ http = [status |-> 0] /\ embed_calls = 0 /\ search_calls = 0
    /\ ChunkIdle

ServeNext == BuildNext \/ QueryNext

SpecServe == ServeInit /\ [][ServeNext]_vars

\* the index and the metadata were written by one build: the earlier one, or
\* the one that is running
SameBuild(ix, md) ==
    \/ ix = OldIndexFile.data /\ md = OldMetadataFile.data
    \/ ix = index /\ md = all_metadata

\* C12: the build publishes atomically, so a Retriever constructed while a
\* build runs on the same paths never reads a partially written file, and
\* never ends up with the index of one build and the metadata of another.
C12_AtomicPublish ==
    [][/\ (qpc = "load_index" /\ qpc' # "load_index") =>
             index_file.state # "partial"
       /\ (qpc = "load_metadata" /\ qpc' # "load_metadata") =>
             metadata_file.state # "partial"
       /\ (qpc = "load_metadata" /\ qpc' = "embed_query") =>
             SameBuild(r_index', r_doc_metadata')]_vars

====
